---- MODULE Spec2Model ----
(***************************************************************************)
(* Model of the day4 solver (src/day4/src/main.rs): the streaming count of  *)
(* initially movable rolls (RowRememberer) and the full-grid fixpoint of    *)
(* sweeps (Room), run one after the other on the same input as main does.   *)
(* Three more programs have a specification of their own: the merged ranges *)
(* of day5 (SpecRanges), the dial of day1 (SpecDial) and the battery of     *)
(* day3 (SpecBattery). While one program runs, the variables of the others  *)
(* keep their first values.                                                *)
(*                                                                         *)
(* Rows and row vectors are TLA+ sequences (1-based); every coordinate and  *)
(* index that appears in a definition is the source's 0-based value, and    *)
(* the accessors add 1.                                                     *)
(***************************************************************************)
EXTENDS Integers, Sequences, FiniteSets, TLC

\* ------------------------------------------------------------------ bounds

\* Rectangular inputs (at least two rows and two columns) have at most MaxCells
\* cells (height * width).
MaxCells == 9
\* Arbitrary inputs (blank lines, rows of unequal length, single rows and
\* columns) have at most MaxChars characters, a blank line counting as one.
MaxChars == 4
\* Dense inputs are rectangular with at least four rows and four columns (a
\* smaller grid always ends empty), at most MaxDenseCells cells and at most
\* MaxHoles of them empty.
MaxDenseCells == 16
MaxHoles == 3
\* Inputs with a blank line are the grids of at most MaxBlankCells cells with
\* one blank line put before, between or after their rows.
MaxBlankCells == 7
\* The inputs of SpecAnyOrder, where every order of removal is followed: grids
\* of at most MaxAnyOrderCells cells, arbitrary inputs as above, dense inputs
\* with at most MaxAnyOrderHoles empty cells.
MaxAnyOrderCells == 8
MaxAnyOrderHoles == 0
\* The inputs of SpecFixpoint, where every subset of the rolls is looked at:
\* grids of at most MaxFixpointCells cells, arbitrary inputs as above, dense
\* inputs with at most MaxFixpointHoles empty cells.
MaxFixpointCells == 9
MaxFixpointHoles == 2

\* day5: usize stands for 0..UsizeMax; at most MaxAdds ranges are added.
UsizeMax == 3
MaxAdds == 4

\* day1: i32 stands for -I32Max - 1 .. I32Max; the dial has at most
\* MaxPositions positions and handle_input reads at most MaxLines lines.
I32Max == 7
MaxPositions == 4
MaxLines == 3

\* day3: a line has at most MaxLineLen digits, each at most MaxDigit, and
\* usize::MAX stands at ParseMax, between the least and the greatest number
\* of four such digits.
MaxLineLen == 5
MaxDigit == 3
ParseMax == 1844

\* ------------------------------------------------------------------ inputs

ROLL == "@"
Chars == {"@", "."}

RowsOfLen(n) == [1..n -> Chars]

\* The grids of at least two rows and two columns with at most n cells.
RectInputs(n) ==
    UNION { [1..hw[1] -> RowsOfLen(hw[2])] :
            hw \in {d \in (2..n) \X (2..n) : d[1] * d[2] <= n} }

RECURSIVE AnyInputs(_)
AnyInputs(n) ==
    {<<>>} \cup
    UNION { { <<l>> \o rest : l \in (IF len = 1 THEN RowsOfLen(1) \cup {<<>>} ELSE RowsOfLen(len)),
                              rest \in AnyInputs(n - len) } : len \in 1..n }

\* The sets of at most n elements of S.
RECURSIVE UpTo(_, _)
UpTo(S, n) ==
    IF n = 0 THEN {{}}
    ELSE LET less == UpTo(S, n - 1)
         IN  less \cup { T \cup {x} : T \in less, x \in S }

\* The grids of at least four rows and four columns with at most MaxDenseCells
\* cells, at most n of them empty.
DenseInputs(n) ==
    UNION { { [x \in 1..hw[1] |-> [y \in 1..hw[2] |-> IF <<x, y>> \in empty THEN "." ELSE ROLL]] :
              empty \in UpTo((1..hw[1]) \X (1..hw[2]), n) } :
            hw \in {d \in (4..MaxDenseCells) \X (4..MaxDenseCells) : d[1] * d[2] <= MaxDenseCells} }

\* The grids of at most n cells with one blank line somewhere.
BlankInputs(n) ==
    UNION { { SubSeq(g, 1, at) \o << <<>> >> \o SubSeq(g, at + 1, Len(g)) : at \in 0..Len(g) } :
            g \in RectInputs(n) }

Inputs ==
    RectInputs(MaxCells) \cup AnyInputs(MaxChars) \cup DenseInputs(MaxHoles)
        \cup BlankInputs(MaxBlankCells)

\* -------------------------------------------------------------------- Entry

Entry_new == [is_roll |-> FALSE, neighbors |-> 0]

new_with_roll(is_roll) == [is_roll |-> is_roll, neighbors |-> 0]

set_roll(e) == [e EXCEPT !.is_roll = TRUE]

\* Mutant: the flag is left set.
unset_roll_forgot(e) == e

unset_roll(e) == [e EXCEPT !.is_roll = FALSE]

inc_neighbors(e) == [e EXCEPT !.neighbors = e.neighbors + 1]

\* self.neighbors -= 1 on a usize of 0: a build with overflow checks panics
\* ("attempt to subtract with overflow"), one without wraps to usize::MAX.  The
\* model ends the run there with status "subtract_with_overflow" for both.
dec_overflows(e) == e.neighbors = 0

\* Mutant: the count is left as it is.
dec_neighbors_forgot(e) == e

dec_neighbors(e) == [e EXCEPT !.neighbors = e.neighbors - 1]

\* Mutant: a count of 3 is not movable.
is_movable_lt3(e) == e.is_roll /\ e.neighbors < 3

\* Mutant: a count of 4 is movable too.
is_movable_le(e) == e.is_roll /\ e.neighbors <= 4

\* Mutant: an entry without roll is movable too.
is_movable_any(e) == e.neighbors < 4

is_movable(e) == e.is_roll /\ e.neighbors < 4

\* ------------------------------------------------------------ RowRememberer

EmptyRow(width) == [x \in 1..width |-> Entry_new]

RowRememberer_new == [width |-> 0, prev_row |-> <<>>, curr_row |-> <<>>]

tally_prev_row(self) ==
    Cardinality({x \in 1..Len(self.prev_row) : is_movable(self.prev_row[x])})

\* Mutant: the roll's own column is incremented in the current row as well.
handle_index_self(st, index) ==
    LET left == index - 1
        right == index + 1
        s1 == IF index >= 1
              THEN [st EXCEPT !.prev_row[left + 1] = inc_neighbors(@),
                              !.curr_row[left + 1] = inc_neighbors(@),
                              !.next[left + 1] = inc_neighbors(@)]
              ELSE st
        s2 == [s1 EXCEPT !.curr_row[index + 1] = inc_neighbors(set_roll(@)),
                         !.prev_row[index + 1] = inc_neighbors(@),
                         !.next[index + 1] = inc_neighbors(@)]
        s3 == IF right < st.width
              THEN [s2 EXCEPT !.prev_row[right + 1] = inc_neighbors(@),
                              !.curr_row[right + 1] = inc_neighbors(@),
                              !.next[right + 1] = inc_neighbors(@)]
              ELSE s2
    IN  IF index >= 1 /\ left >= Len(st.prev_row)
        THEN [st EXCEPT !.panic = "index_out_of_bounds"]
        ELSE IF index >= Len(st.curr_row)
        THEN [st EXCEPT !.panic = "index_out_of_bounds"]
        ELSE s3

\* Mutant: the column to the right is not incremented in the next row.
handle_index_no_right_below(st, index) ==
    LET left == index - 1
        right == index + 1
        s1 == IF index >= 1
              THEN [st EXCEPT !.prev_row[left + 1] = inc_neighbors(@),
                              !.curr_row[left + 1] = inc_neighbors(@),
                              !.next[left + 1] = inc_neighbors(@)]
              ELSE st
        s2 == [s1 EXCEPT !.curr_row[index + 1] = set_roll(@),
                         !.prev_row[index + 1] = inc_neighbors(@),
                         !.next[index + 1] = inc_neighbors(@)]
        s3 == IF right < st.width
              THEN [s2 EXCEPT !.prev_row[right + 1] = inc_neighbors(@),
                              !.curr_row[right + 1] = inc_neighbors(@)]
              ELSE s2
    IN  IF index >= 1 /\ left >= Len(st.prev_row)
        THEN [st EXCEPT !.panic = "index_out_of_bounds"]
        ELSE IF index >= Len(st.curr_row)
        THEN [st EXCEPT !.panic = "index_out_of_bounds"]
        ELSE s3

\* The body of handle_row's for loop for one roll at column `index`.  st holds
\* prev_row, curr_row, next and the panic raised by an index past a vector's end.
handle_index(st, index) ==
    LET left == index - 1
        right == index + 1
        s1 == IF index >= 1
              THEN [st EXCEPT !.prev_row[left + 1] = inc_neighbors(@),
                              !.curr_row[left + 1] = inc_neighbors(@),
                              !.next[left + 1] = inc_neighbors(@)]
              ELSE st
        s2 == [s1 EXCEPT !.curr_row[index + 1] = set_roll(@),
                         !.prev_row[index + 1] = inc_neighbors(@),
                         !.next[index + 1] = inc_neighbors(@)]
        s3 == IF right < st.width
              THEN [s2 EXCEPT !.prev_row[right + 1] = inc_neighbors(@),
                              !.curr_row[right + 1] = inc_neighbors(@),
                              !.next[right + 1] = inc_neighbors(@)]
              ELSE s2
    IN  IF index >= 1 /\ left >= Len(st.prev_row)
        THEN [st EXCEPT !.panic = "index_out_of_bounds"]
        ELSE IF index >= Len(st.curr_row)
        THEN [st EXCEPT !.panic = "index_out_of_bounds"]
        ELSE s3

\* row.chars().enumerate().filter(c == '@'), from 0-based column `index` on.
RECURSIVE handle_chars(_, _, _)
handle_chars(st, row, index) ==
    IF index >= Len(row) \/ st.panic # "none" THEN st
    ELSE IF row[index + 1] = ROLL
    THEN handle_chars(handle_index(st, index), row, index + 1)
    ELSE handle_chars(st, row, index + 1)

\* Mutant: the buffers are rotated before the tally.
handle_data_row_rotate_first(self, row) ==
    LET s0 == IF self.width = 0
              THEN [width |-> Len(row), prev_row |-> EmptyRow(Len(row)),
                    curr_row |-> EmptyRow(Len(row))]
              ELSE self
        st == handle_chars([width |-> s0.width, prev_row |-> s0.prev_row,
                            curr_row |-> s0.curr_row, next |-> EmptyRow(s0.width),
                            panic |-> "none"], row, 0)
    IN  [width |-> st.width, prev_row |-> st.curr_row, curr_row |-> st.next,
         ret |-> tally_prev_row([st EXCEPT !.prev_row = st.curr_row]),
         panic |-> st.panic]

\* handle_row after its check for an empty row.  Returns the rememberer after
\* the row, the tally returned (ret) and the panic.
handle_data_row(self, row) ==
    LET s0 == IF self.width = 0
              THEN [width |-> Len(row), prev_row |-> EmptyRow(Len(row)),
                    curr_row |-> EmptyRow(Len(row))]
              ELSE self
        st == handle_chars([width |-> s0.width, prev_row |-> s0.prev_row,
                            curr_row |-> s0.curr_row, next |-> EmptyRow(s0.width),
                            panic |-> "none"], row, 0)
    IN  [width |-> st.width, prev_row |-> st.curr_row, curr_row |-> st.next,
         ret |-> tally_prev_row(st), panic |-> st.panic]

\* Mutant: an empty row is handled like any other.
handle_row_no_empty_check(self, row) == handle_data_row(self, row)

handle_row(self, row) ==
    IF row = <<>>
    THEN [width |-> self.width, prev_row |-> self.prev_row, curr_row |-> self.curr_row,
          ret |-> 0, panic |-> "none"]
    ELSE handle_data_row(self, row)

\* --------------------------------------------------------------------- Room

\* Room::from up to the call of prepare: the non-empty lines as rows of entries,
\* height the number of rows, width the length of the last row (unwrap of
\* rows.last() panics when there is none).
Room_new(lines) ==
    LET kept == SelectSeq(lines, LAMBDA line : line # <<>>)
        rows == [x \in 1..Len(kept) |->
                    [y \in 1..Len(kept[x]) |-> new_with_roll(kept[x][y] = ROLL)]]
    IN  IF rows = <<>>
        THEN [height |-> 0, width |-> 0, rows |-> rows, panic |-> "unwrap_on_none"]
        ELSE [height |-> Len(rows), width |-> Len(rows[Len(rows)]), rows |-> rows,
              panic |-> "none"]

\* Mutant: the column after the last one passes the bound check.
find_neighbors_past_width(self, r, c) ==
    LET n_r == r + 1
        n_c == c + 1
        p_r == r - 1
    IN  (IF r > 0
         THEN (IF c > 0 THEN << <<p_r, c - 1>> >> ELSE <<>>)
              \o << <<p_r, c>> >>
              \o (IF n_c <= self.width THEN << <<p_r, n_c>> >> ELSE <<>>)
         ELSE <<>>)
        \o (IF c > 0 THEN << <<r, c - 1>> >> ELSE <<>>)
        \o (IF n_c <= self.width THEN << <<r, n_c>> >> ELSE <<>>)
        \o (IF n_r < self.height
            THEN (IF c > 0 THEN << <<n_r, c - 1>> >> ELSE <<>>)
                 \o << <<n_r, c>> >>
                 \o (IF n_c <= self.width THEN << <<n_r, n_c>> >> ELSE <<>>)
            ELSE <<>>)

find_neighbors(self, r, c) ==
    LET n_r == r + 1
        n_c == c + 1
        p_r == r - 1
    IN  (IF r > 0
         THEN (IF c > 0 THEN << <<p_r, c - 1>> >> ELSE <<>>)
              \o << <<p_r, c>> >>
              \o (IF n_c < self.width THEN << <<p_r, n_c>> >> ELSE <<>>)
         ELSE <<>>)
        \o (IF c > 0 THEN << <<r, c - 1>> >> ELSE <<>>)
        \o (IF n_c < self.width THEN << <<r, n_c>> >> ELSE <<>>)
        \o (IF n_r < self.height
            THEN (IF c > 0 THEN << <<n_r, c - 1>> >> ELSE <<>>)
                 \o << <<n_r, c>> >>
                 \o (IF n_c < self.width THEN << <<n_r, n_c>> >> ELSE <<>>)
            ELSE <<>>)

\* The (r, c) of the room's cells.
Cells(self) == (0..self.height - 1) \X (0..self.width - 1)

\* self.rows[x][y] exists
InVec(rows, x, y) == x < Len(rows) /\ y < Len(rows[x + 1])

\* for (x, y) in &neighbors { self.rows[*x][*y].inc_neighbors(); }, from the
\* n-th neighbour on; status is "running" or the panic.
RECURSIVE inc_all(_, _, _)
inc_all(rows, nbs, n) ==
    IF n > Len(nbs) THEN [rows |-> rows, status |-> "running"]
    ELSE LET x == nbs[n][1]
             y == nbs[n][2]
         IN  IF ~InVec(rows, x, y)
             THEN [rows |-> rows, status |-> "index_out_of_bounds"]
             ELSE inc_all([rows EXCEPT ![x + 1][y + 1] = inc_neighbors(@)], nbs, n + 1)

\* for (x, y) in &neighbors { self.rows[*x][*y].dec_neighbors(); }
RECURSIVE dec_all(_, _, _)
dec_all(rows, nbs, n) ==
    IF n > Len(nbs) THEN [rows |-> rows, status |-> "running"]
    ELSE LET x == nbs[n][1]
             y == nbs[n][2]
         IN  IF ~InVec(rows, x, y)
             THEN [rows |-> rows, status |-> "index_out_of_bounds"]
             ELSE IF dec_overflows(rows[x + 1][y + 1])
             THEN [rows |-> rows, status |-> "subtract_with_overflow"]
             ELSE dec_all([rows EXCEPT ![x + 1][y + 1] = dec_neighbors(@)], nbs, n + 1)

\* One removal of sweep: the roll at (i, j) is unset and each of its neighbours
\* decremented.
remove_roll(rows, nbs, i, j) ==
    dec_all([rows EXCEPT ![i + 1][j + 1] = unset_roll(@)], nbs, 1)

\* The locals of prepare and sweep with the room they work on: k is the number
\* of (i, j) pairs the two nested for loops have gone through (the next pair is
\* i = k \div width, j = k % width), called the arguments of the last
\* find_neighbors call, status "running", "returned" or the panic.
Frame(self) ==
    [self |-> self, k |-> 0, neighbors |-> <<>>, count |-> 0, called |-> <<>>,
     status |-> "running"]

LoopI(f) == f.k \div f.self.width
LoopJ(f) == f.k % f.self.width

\* prepare's loops up to and including the next roll: entries that are no roll
\* are skipped (continue), the roll's neighbours are incremented.
RECURSIVE prepare_step(_)
prepare_step(f) ==
    LET i == LoopI(f)
        j == LoopJ(f)
    IN  IF f.k >= f.self.height * f.self.width THEN [f EXCEPT !.status = "returned"]
        ELSE IF ~InVec(f.self.rows, i, j) THEN [f EXCEPT !.status = "index_out_of_bounds"]
        ELSE IF ~f.self.rows[i + 1][j + 1].is_roll THEN prepare_step([f EXCEPT !.k = f.k + 1])
        ELSE LET nbs == find_neighbors(f.self, i, j)
                 r == inc_all(f.self.rows, nbs, 1)
             IN  [f EXCEPT !.self.rows = r.rows, !.k = f.k + 1, !.neighbors = nbs,
                           !.called = <<i, j>>, !.status = r.status]

RECURSIVE prepare_run(_)
prepare_run(f) == IF f.status # "running" THEN f ELSE prepare_run(prepare_step(f))

prepare(self) == prepare_run(Frame(self))

\* Mutant: count is incremented before the test of is_movable.
RECURSIVE sweep_step_counts_all(_)
sweep_step_counts_all(f) ==
    LET i == LoopI(f)
        j == LoopJ(f)
    IN  IF f.k >= f.self.height * f.self.width THEN [f EXCEPT !.status = "returned"]
        ELSE IF ~InVec(f.self.rows, i, j) THEN [f EXCEPT !.status = "index_out_of_bounds"]
        ELSE IF ~is_movable(f.self.rows[i + 1][j + 1])
        THEN sweep_step_counts_all([f EXCEPT !.k = f.k + 1, !.count = f.count + 1])
        ELSE LET nbs == find_neighbors(f.self, i, j)
                 r == remove_roll(f.self.rows, nbs, i, j)
             IN  [f EXCEPT !.self.rows = r.rows, !.k = f.k + 1, !.neighbors = nbs,
                           !.count = f.count + 1, !.called = <<i, j>>, !.status = r.status]

\* Mutant: the scan starts over after a removal.
RECURSIVE sweep_step_rescan(_)
sweep_step_rescan(f) ==
    LET i == LoopI(f)
        j == LoopJ(f)
    IN  IF f.k >= f.self.height * f.self.width THEN [f EXCEPT !.status = "returned"]
        ELSE IF ~InVec(f.self.rows, i, j) THEN [f EXCEPT !.status = "index_out_of_bounds"]
        ELSE IF ~is_movable(f.self.rows[i + 1][j + 1])
        THEN sweep_step_rescan([f EXCEPT !.k = f.k + 1])
        ELSE LET nbs == find_neighbors(f.self, i, j)
                 r == remove_roll(f.self.rows, nbs, i, j)
             IN  [f EXCEPT !.self.rows = r.rows, !.k = 0, !.neighbors = nbs,
                           !.count = f.count + 1, !.called = <<i, j>>, !.status = r.status]

\* sweep's loops up to and including the next movable entry, which is removed.
RECURSIVE sweep_step(_)
sweep_step(f) ==
    LET i == LoopI(f)
        j == LoopJ(f)
    IN  IF f.k >= f.self.height * f.self.width THEN [f EXCEPT !.status = "returned"]
        ELSE IF ~InVec(f.self.rows, i, j) THEN [f EXCEPT !.status = "index_out_of_bounds"]
        ELSE IF ~is_movable(f.self.rows[i + 1][j + 1]) THEN sweep_step([f EXCEPT !.k = f.k + 1])
        ELSE LET nbs == find_neighbors(f.self, i, j)
                 r == remove_roll(f.self.rows, nbs, i, j)
             IN  [f EXCEPT !.self.rows = r.rows, !.k = f.k + 1, !.neighbors = nbs,
                           !.count = f.count + 1, !.called = <<i, j>>, !.status = r.status]

RECURSIVE sweep_run(_)
sweep_run(f) == IF f.status # "running" THEN f ELSE sweep_run(sweep_step(f))

sweep(self) == sweep_run(Frame(self))

\* -------------------------------------------------- whole-function operators

\* .map(|line| rememberer.handle_row(&line)).sum() from line pos + 1 on.
RECURSIVE stream_rows(_, _, _, _)
stream_rows(self, lines, pos, all_but_last) ==
    IF pos >= Len(lines)
    THEN [ret |-> all_but_last + tally_prev_row(self), panic |-> "none"]
    ELSE LET r == handle_row(self, lines[pos + 1])
         IN  IF r.panic # "none" THEN [ret |-> 0, panic |-> r.panic]
             ELSE stream_rows([width |-> r.width, prev_row |-> r.prev_row,
                               curr_row |-> r.curr_row], lines, pos + 1,
                              all_but_last + r.ret)

count_initially_movable(lines) == stream_rows(RowRememberer_new, lines, 0, 0)

\* Mutant: one sweep and no more.
sweep_loop_once(self, total_moved) ==
    LET f == sweep(self)
    IN  IF f.status # "returned" THEN [ret |-> 0, panic |-> f.status]
        ELSE [ret |-> total_moved + f.count, panic |-> "none"]

\* The loop of count_eventually_movable on a prepared room.
RECURSIVE sweep_loop(_, _)
sweep_loop(self, total_moved) ==
    LET f == sweep(self)
    IN  IF f.status # "returned" THEN [ret |-> 0, panic |-> f.status]
        ELSE IF f.count = 0 THEN [ret |-> total_moved, panic |-> "none"]
        ELSE sweep_loop(f.self, total_moved + f.count)

\* Room::from: the frame prepare returns, or the panic of the construction.
Room_from(lines) ==
    LET made == Room_new(lines)
        self == [height |-> made.height, width |-> made.width, rows |-> made.rows]
    IN  IF made.panic # "none" THEN [Frame(self) EXCEPT !.status = made.panic]
        ELSE prepare(self)

count_eventually_movable(lines) ==
    LET f == Room_from(lines)
    IN  IF f.status # "returned" THEN [ret |-> 0, panic |-> f.status]
        ELSE sweep_loop(f.self, 0)

\* ------------------------------------------------- day5: MyRange and Ranges

\* usize arithmetic: a result outside 0..UsizeMax is "attempt to ... with
\* overflow" in a build with overflow checks and wraps in a build without.
\* An operator that computes in usize returns [ret, panic]: ret is the wrapped
\* value, panic the panic of the checked build ("none" when in range).
UsizeWrap(x) == x % (UsizeMax + 1)

UsizeResult(x, what) ==
    [ret |-> UsizeWrap(x), panic |-> IF x \in 0..UsizeMax THEN "none" ELSE what]

\* FromStr for MyRange on a line already split at '-': <<start, end>>.
from_str(s) == [start |-> s[1], end |-> s[2]]

partial_cmp(self, other) ==
    IF self.end < other.start THEN "Less"
    ELSE IF self.start > other.end THEN "Greater"
    ELSE IF self = other THEN "Equal"
    ELSE "None"

\* range < new, as PartialOrd derives it from partial_cmp
lt(self, other) == partial_cmp(self, other) = "Less"

\* Mutant: ranges that only touch count as overlapping.
overlaps_touching(self, other) == ~(self.end + 1 < other.start \/ other.end + 1 < self.start)

overlaps(self, other) == ~(self.end < other.start \/ other.end < self.start)

merge(self, other) ==
    [start |-> IF self.start <= other.start THEN self.start ELSE other.start,
     end |-> IF self.end >= other.end THEN self.end ELSE other.end]

MyRange_total(self) ==
    IF self.end < self.start
    THEN UsizeResult(self.end - self.start, "subtract_with_overflow")
    ELSE UsizeResult(self.end - self.start + 1, "add_with_overflow")

\* The second find of add_range over self.0[from - 1 ..]: new absorbs every
\* range that overlaps it, up to the first that does not. from is the 1-based
\* place of the range looked at; at = Len(v) + 1 when find returns None.
RECURSIVE absorb(_, _, _)
absorb(v, from, new) ==
    IF from > Len(v) THEN [new |-> new, at |-> from]
    ELSE IF overlaps(v[from], new) THEN absorb(v, from + 1, merge(new, v[from]))
    ELSE [new |-> new, at |-> from]

\* Mutant: the new range is always pushed to the end.
add_range_push(v, new) == Append(v, new)

\* Ranges::add_range on the vector self.0
add_range(v, new) ==
    IF v = <<>> THEN <<new>>
    ELSE LET matching == { x \in 1..Len(v) : ~lt(v[x], new) }
         IN  IF matching = {} THEN Append(v, new)
             ELSE LET first_matching == CHOOSE x \in matching : \A y \in matching : x <= y
                      cmp == partial_cmp(v[first_matching], new)
                  IN  IF cmp = "Equal" THEN v
                      ELSE IF cmp = "Greater"
                      THEN SubSeq(v, 1, first_matching - 1) \o <<new>>
                               \o SubSeq(v, first_matching, Len(v))
                      ELSE LET a == absorb(v, first_matching + 1,
                                           merge(new, v[first_matching]))
                           IN  IF a.at > Len(v)
                               THEN Append(SubSeq(v, 1, first_matching - 1), a.new)
                               ELSE SubSeq(v, 1, first_matching - 1)
                                        \o <<merge(v[first_matching], a.new)>>
                                        \o SubSeq(v, a.at, Len(v))

\* Ranges::from: leading blank lines are skipped, the lines up to the next
\* blank one are parsed and added in turn.
RECURSIVE skip_while_empty(_)
skip_while_empty(lines) ==
    IF lines # <<>> /\ Head(lines) = <<>> THEN skip_while_empty(Tail(lines)) ELSE lines

RECURSIVE fold_ranges(_, _)
fold_ranges(acc, lines) ==
    IF lines = <<>> \/ Head(lines) = <<>> THEN acc
    ELSE fold_ranges(add_range(acc, from_str(Head(lines))), Tail(lines))

Ranges_from(lines) == fold_ranges(<<>>, skip_while_empty(lines))

\* Ranges::contains
contains(v, number) ==
    LET found == { x \in 1..Len(v) : ~(v[x].end < number) }
    IN  IF found = {} THEN FALSE
        ELSE v[CHOOSE x \in found : \A y \in found : x <= y].start <= number

\* Ranges::total: the sum of the ranges' totals; the panic is that of the first
\* subtraction or addition that leaves usize.
RECURSIVE sum_totals(_, _, _)
sum_totals(v, x, acc) ==
    IF x > Len(v) THEN acc
    ELSE LET t == MyRange_total(v[x])
             s == UsizeResult(acc.ret + t.ret, "add_with_overflow")
         IN  sum_totals(v, x + 1,
                        [ret |-> s.ret,
                         panic |-> IF acc.panic # "none" THEN acc.panic
                                   ELSE IF t.panic # "none" THEN t.panic
                                   ELSE s.panic])

Ranges_total(v) == sum_totals(v, 1, [ret |-> 0, panic |-> "none"])

\* ----------------------------------------------- day1: Rotation and Position

\* i32 stands for I32Min..I32Max, wrapping as two's complement does.
I32Min == -I32Max - 1

I32Wrap(x) == ((x - I32Min) % (I32Max - I32Min + 1)) + I32Min

InI32(x) == x \in I32Min..I32Max

\* Rotation::from_str on a line split at 1: <<prefix, count>>, count the i32
\* that num.parse() gives. With prefix "L" the count is negated, in i32.
Rotation_from_str(s) ==
    IF s[1] = "L"
    THEN [ok |-> TRUE, rot |-> I32Wrap(-s[2]),
          panic |-> IF InI32(-s[2]) THEN "none" ELSE "negate_with_overflow"]
    ELSE IF s[1] = "R" THEN [ok |-> TRUE, rot |-> s[2], panic |-> "none"]
    ELSE [ok |-> FALSE, rot |-> 0, panic |-> "none"]

\* a / b of Rust for b > 0: the quotient rounded towards zero
div_trunc(a, b) == IF a >= 0 THEN a \div b ELSE -((-a) \div b)

Position_new(start, total_positions) ==
    [current |-> start, total_positions |-> total_positions]

\* Position::handle_rotation. checks: the build has overflow checks. The
\* result is the receiver afterwards, the returned pair and the panic, if any,
\* that ends the call: raw_sum leaving i32 panics with checks and wraps
\* without; abs() of i32::MIN panics with checks and is i32::MIN without,
\* which try_into().unwrap() then panics on.
handle_rotation(self, rot, checks) ==
    LET raw == self.current + rot
        raw_sum == I32Wrap(raw)
        quotient == div_trunc(raw_sum, self.total_positions)
        abs == IF quotient < 0 THEN -quotient ELSE quotient
        passthroughs == IF self.current > 0 /\ raw_sum <= 0 THEN abs + 1 ELSE abs
        current == raw_sum % self.total_positions
    IN  IF checks /\ ~InI32(raw)
        THEN [self |-> self, ret |-> <<0, 0>>, panic |-> "add_with_overflow"]
        ELSE IF ~InI32(abs)
        THEN [self |-> self, ret |-> <<0, 0>>,
              panic |-> IF checks THEN "negate_with_overflow" ELSE "unwrap_on_err"]
        ELSE [self |-> [self EXCEPT !.current = current],
              ret |-> <<IF current = 0 THEN 1 ELSE 0, passthroughs>>,
              panic |-> "none"]

\* -------------------------------------------- day3: max_battery_of_length

\* A line is the sequence of its digits; a Result is [err, val] with err "none"
\* for Ok(val).
Ok(val) == [err |-> "none", val |-> val]
Err(err) == [err |-> err, val |-> 0]

\* digits.parse::<usize>(): the decimal value, an error when there is no digit
\* or the value is above usize::MAX (ParseMax here).
RECURSIVE decimal(_)
decimal(digits) ==
    IF digits = <<>> THEN 0
    ELSE 10 * decimal(SubSeq(digits, 1, Len(digits) - 1)) + digits[Len(digits)]

parse(digits) ==
    IF digits = <<>> \/ decimal(digits) > ParseMax THEN Err("ParseInt")
    ELSE Ok(decimal(digits))

\* Mutant: among equal digits the last is taken.
max_enumerated_last(line, from, to) ==
    LET ind == CHOOSE x \in from..to - 1 :
                   \A y \in from..to - 1 :
                       line[y + 1] < line[x + 1] \/ (line[y + 1] = line[x + 1] /\ y <= x)
    IN  [greatest |-> line[ind + 1], ind |-> ind - from]

\* .chars().enumerate().map(|(ind, byt)| (byt, -(ind as isize))).max() on the
\* slice from..to (0-based, to excluded): the greatest digit and, among equal
\* digits, the greatest -ind, which is the first of them.
max_enumerated(line, from, to) ==
    LET ind == CHOOSE x \in from..to - 1 :
                   \A y \in from..to - 1 :
                       line[y + 1] < line[x + 1] \/ (line[y + 1] = line[x + 1] /\ x <= y)
    IN  [greatest |-> line[ind + 1], ind |-> ind - from]

\* The for loop of max_battery_of_length from iteration i on.
RECURSIVE pick(_, _, _, _, _)
pick(len, line, i, prev_index, digits) ==
    IF i >= len THEN parse(digits)
    ELSE LET start_index == prev_index + 1
             end_index == Len(line) - len + 1 + i
         IN  IF start_index > end_index \/ end_index > Len(line)
             THEN Err("ParseBattery")              \* line.get(..) is None
             ELSE IF start_index = end_index
             THEN Err("ParseBattery")              \* max() of nothing is None
             ELSE LET m == max_enumerated(line, start_index, end_index)
                  IN  pick(len, line, i + 1, start_index + m.ind,
                           Append(digits, m.greatest))

max_battery_of_length(len, line) ==
    IF Len(line) < len THEN Err("TooShort")
    ELSE pick(len, line, 0, -1, <<>>)

\* ------------------------------------------------------------ the program

VARIABLES
    input,               \* the lines of standard input
    pc,                  \* where main is
    panic,               \* "none" or the panic that ended the process
    pos,                 \* lines consumed by count_initially_movable
    rememberer,          \* its RowRememberer
    all_but_last,        \* the sum of handle_row's results so far
    initially_movable,   \* main's first result
    tallies,             \* what each tally_prev_row call so far has returned
    room,                \* the Room of count_eventually_movable
    k, neighbors, count, \* the locals of the running prepare or sweep
    called,              \* the (r, c) of its last find_neighbors call
    total_moved,         \* count_eventually_movable's accumulator
    sweeps,              \* number of calls of sweep so far
    eventually_movable,  \* main's second result
    at_call,             \* the room as it was when the running sweep was called
    removed,             \* rolls removed one at a time (SpecAnyOrder)
    stored,              \* day5: the vector of the Ranges being built
    added,               \* day5: the ranges add_range was called with so far
    adds,                \* day5: the number of add_range calls so far
    overflow_checks,     \* day1: the build panics on integer overflow
    position,            \* day1: the Position handle_input is called on
    acc,                 \* day1: the accumulator of handle_input's fold
    lines_read,          \* day1: the lines handle_input has taken
    dial_panic,          \* day1: "none" or the panic that ended the process
    handled,             \* day1: the last handle_rotation call and its result,
                         \*       and whether a raw_sum has left i32 so far
    simulated,           \* day1: the dial turned click by click
    battery_len,         \* day3: the len max_battery_of_length is called with
    battery_line,        \* day3: the line it is called with
    battery              \* day3: its result, or NoResult before the call

vars == <<input, pc, panic, pos, rememberer, all_but_last,
          initially_movable, tallies, room, k, neighbors, count, called, total_moved, sweeps,
          eventually_movable, at_call, removed, stored, added, adds, overflow_checks,
          position, acc, lines_read, dial_panic, handled, simulated,
          battery_len, battery_line, battery>>

streamVars == <<pos, rememberer, all_but_last, initially_movable, tallies>>
roomVars == <<room, k, neighbors, count, called>>
loopVars == <<total_moved, sweeps, eventually_movable, at_call>>
day5Vars == <<stored, added, adds>>
\* what the day4 program does not touch
day1Vars == <<overflow_checks, position, acc, lines_read, dial_panic, handled,
              simulated>>
day3Vars == <<battery_len, battery_line, battery>>
restVars == <<day5Vars, day1Vars, day3Vars>>


NoRoom == [height |-> 0, width |-> 0, rows |-> <<>>]

day4Vars == <<input, pc, panic, streamVars, roomVars, loopVars, removed>>

\* A program that has not started: its variables keep their first values.
Day4Idle ==
    /\ input = <<>>
    /\ pc = "idle"
    /\ panic = "none"
    /\ pos = 0
    /\ rememberer = RowRememberer_new
    /\ all_but_last = 0
    /\ initially_movable = 0
    /\ tallies = <<>>
    /\ room = NoRoom
    /\ k = 0
    /\ neighbors = <<>>
    /\ count = 0
    /\ called = <<>>
    /\ total_moved = 0
    /\ sweeps = 0
    /\ eventually_movable = 0
    /\ at_call = NoRoom
    /\ removed = 0

Day5Idle ==
    /\ stored = <<>>
    /\ added = {}
    /\ adds = 0

NoCall == [before |-> 0, rot |-> 0, ret |-> <<0, 0>>, called |-> FALSE, wrapped |-> FALSE]

Day1Idle ==
    /\ overflow_checks = FALSE
    /\ position = Position_new(0, 0)
    /\ acc = <<0, 0>>
    /\ lines_read = 0
    /\ dial_panic = "none"
    /\ handled = NoCall
    /\ simulated = [position |-> 0, zeros |-> 0]

NoResult == [err |-> "not_called", val |-> 0]

Day3Idle ==
    /\ battery_len = 0
    /\ battery_line = <<>>
    /\ battery = NoResult

RestIdle == Day5Idle /\ Day1Idle /\ Day3Idle

CurFrame ==
    [self |-> room, k |-> k, neighbors |-> neighbors, count |-> count, called |-> called,
     status |-> "running"]

Init ==
    /\ input \in Inputs
    /\ pc = "stream"
    /\ panic = "none"
    /\ pos = 0
    /\ rememberer = RowRememberer_new
    /\ all_but_last = 0
    /\ initially_movable = 0
    /\ tallies = <<>>
    /\ room = NoRoom
    /\ k = 0
    /\ neighbors = <<>>
    /\ count = 0
    /\ called = <<>>
    /\ total_moved = 0
    /\ sweeps = 0
    /\ eventually_movable = 0
    /\ at_call = NoRoom
    /\ removed = 0
    /\ RestIdle

\* count_initially_movable: the next line goes through handle_row.
HandleRow ==
    /\ pc = "stream"
    /\ pos < Len(input)
    /\ LET r == handle_row(rememberer, input[pos + 1])
       IN  /\ rememberer' = [width |-> r.width, prev_row |-> r.prev_row,
                             curr_row |-> r.curr_row]
           /\ panic' = r.panic
           /\ pc' = IF r.panic # "none" THEN "panicked" ELSE "stream"
           /\ all_but_last' = all_but_last + r.ret
           /\ tallies' = IF input[pos + 1] = <<>> THEN tallies
                          ELSE Append(tallies, r.ret)
    /\ pos' = pos + 1
    /\ UNCHANGED <<input, initially_movable, roomVars, loopVars, removed>>
    /\ UNCHANGED restVars

\* count_initially_movable returns: the last row's tally is added.
FinishStream ==
    /\ pc = "stream"
    /\ pos = Len(input)
    /\ initially_movable' = all_but_last + tally_prev_row(rememberer)
    /\ tallies' = Append(tallies, tally_prev_row(rememberer))
    /\ pc' = "from"
    /\ UNCHANGED <<input, panic, pos, rememberer, all_but_last, roomVars,
                   loopVars, removed>>
    /\ UNCHANGED restVars

\* count_eventually_movable: Room::from builds the rows and calls prepare.
RoomFrom ==
    /\ pc = "from"
    /\ LET made == Room_new(input)
       IN  /\ room' = [height |-> made.height, width |-> made.width, rows |-> made.rows]
           /\ panic' = made.panic
           /\ pc' = IF made.panic # "none" THEN "panicked" ELSE "prepare"
    /\ k' = 0
    /\ neighbors' = <<>>
    /\ called' = <<>>
    /\ UNCHANGED <<input, streamVars, count, loopVars, removed>>
    /\ UNCHANGED restVars

\* prepare: up to the next roll, or to the end of the loops.
PrepareStep ==
    /\ pc = "prepare"
    /\ LET f == prepare_step(CurFrame)
       IN  /\ room' = f.self
           /\ k' = f.k
           /\ neighbors' = f.neighbors
           /\ called' = f.called
           /\ panic' = IF f.status \in {"running", "returned"} THEN "none" ELSE f.status
           /\ pc' = CASE f.status = "running" -> "prepare"
                      [] f.status = "returned" -> "loop"
                      [] OTHER -> "panicked"
    /\ UNCHANGED <<input, streamVars, count, loopVars, removed>>
    /\ UNCHANGED restVars

\* let count = room.sweep(): the call, with sweep's fresh locals.
SweepCall ==
    /\ pc = "loop"
    /\ sweeps' = sweeps + 1
    /\ k' = 0
    /\ neighbors' = <<>>
    /\ count' = 0
    /\ called' = <<>>
    /\ pc' = "sweep"
    /\ at_call' = room
    /\ UNCHANGED <<input, panic, streamVars, room, total_moved,
                   eventually_movable, removed>>
    /\ UNCHANGED restVars

\* sweep: up to the next movable roll, which is removed; or to the end of the
\* loops, where sweep returns count and the caller breaks or accumulates.
SweepStep ==
    /\ pc = "sweep"
    /\ LET f == sweep_step(CurFrame)
       IN  /\ room' = f.self
           /\ k' = f.k
           /\ neighbors' = f.neighbors
           /\ count' = f.count
           /\ called' = f.called
           /\ panic' = IF f.status \in {"running", "returned"} THEN "none" ELSE f.status
           /\ pc' = CASE f.status = "running" -> "sweep"
                      [] f.status = "returned" /\ f.count = 0 -> "done"
                      [] f.status = "returned" -> "loop"
                      [] OTHER -> "panicked"
           /\ total_moved' = IF f.status = "returned" THEN total_moved + f.count
                             ELSE total_moved
           /\ eventually_movable' = IF f.status = "returned" /\ f.count = 0
                                    THEN total_moved ELSE eventually_movable
    /\ UNCHANGED <<input, streamVars, sweeps, at_call, removed>>
    /\ UNCHANGED restVars

\* SpecAnyOrder: from the room Room::from builds, the rolls that are movable are
\* removed one at a time in any order, each removal as sweep does it.
AnyOrderInputs ==
    { lines \in RectInputs(MaxAnyOrderCells) \cup AnyInputs(MaxChars)
                    \cup DenseInputs(MaxAnyOrderHoles) :
        Room_from(lines).status = "returned" }

AnyOrderInit ==
    /\ input \in AnyOrderInputs
    /\ pc = "any_order"
    /\ panic = "none"
    /\ pos = 0
    /\ rememberer = RowRememberer_new
    /\ all_but_last = 0
    /\ initially_movable = 0
    /\ tallies = <<>>
    /\ room = Room_from(input).self
    /\ k = 0
    /\ neighbors = <<>>
    /\ count = 0
    /\ called = <<>>
    /\ total_moved = 0
    /\ sweeps = 0
    /\ eventually_movable = 0
    /\ at_call = NoRoom
    /\ removed = 0
    /\ RestIdle

RemoveAny ==
    /\ pc = "any_order"
    /\ \E a \in Cells(room) :
           /\ is_movable(room.rows[a[1] + 1][a[2] + 1])
           /\ LET nbs == find_neighbors(room, a[1], a[2])
                  r == remove_roll(room.rows, nbs, a[1], a[2])
              IN  /\ room' = [room EXCEPT !.rows = r.rows]
                  /\ neighbors' = nbs
                  /\ called' = a
                  /\ panic' = IF r.status = "running" THEN "none" ELSE r.status
                  /\ pc' = IF r.status = "running" THEN "any_order" ELSE "panicked"
    /\ removed' = removed + 1
    /\ UNCHANGED <<input, streamVars, k, count, loopVars>>
    /\ UNCHANGED restVars

SpecAnyOrder == AnyOrderInit /\ [][RemoveAny]_vars

Next ==
    \/ HandleRow
    \/ FinishStream
    \/ RoomFrom
    \/ PrepareStep
    \/ SweepCall
    \/ SweepStep

Spec == Init /\ [][Next]_vars

\* SpecFixpoint: main on fewer inputs.
FixpointInputs ==
    RectInputs(MaxFixpointCells) \cup AnyInputs(MaxChars) \cup DenseInputs(MaxFixpointHoles)

FixpointInit == Init /\ input \in FixpointInputs

SpecFixpoint == FixpointInit /\ [][Next]_vars

\* ------------------------------------------------------ day5: the program

\* The lines of the first block of the input, split at '-': every pair of
\* usize values parses, also one with start > end.
RangeLines == (0..UsizeMax) \X (0..UsizeMax)

RangesInit ==
    /\ Day4Idle
    /\ Day1Idle
    /\ Day3Idle
    /\ stored = <<>>
    /\ added = {}
    /\ adds = 0

\* The fold of Ranges::from takes the next line: acc.add_range(range).
AddRange ==
    /\ adds < MaxAdds
    /\ \E line \in RangeLines :
           LET new == from_str(line)
           IN  /\ stored' = add_range(stored, new)
               /\ added' = added \cup {new}
    /\ adds' = adds + 1
    /\ UNCHANGED <<day4Vars, day1Vars, day3Vars>>

SpecRanges == RangesInit /\ [][AddRange]_vars

\* ------------------------------------------------------ day1: the program

\* The non-empty lines of the input, split at 1: a prefix and an i32 count
\* (num.parse() takes a sign). A line with another prefix does not parse.
RotationLines == {"L", "R", "U"} \X (I32Min..I32Max)

\* One click of the dial in the direction of rot, rot clicks in all; zeros
\* counts the clicks after which the dial reads 0.
RECURSIVE Clicks(_, _, _)
Clicks(sim, rot, total_positions) ==
    IF rot = 0 THEN sim
    ELSE LET step == IF rot > 0 THEN 1 ELSE -1
             next == (sim.position + step) % total_positions
         IN  Clicks([position |-> next,
                     zeros |-> sim.zeros + (IF next = 0 THEN 1 ELSE 0)],
                    rot - step, total_positions)

\* Position::new(start, total_positions).handle_input(..), before the first
\* line, in a build with or without overflow checks.
DialInit ==
    /\ Day4Idle
    /\ Day5Idle
    /\ Day3Idle
    /\ overflow_checks \in BOOLEAN
    /\ \E total_positions \in 1..MaxPositions, start \in 0..MaxPositions - 1 :
           /\ start < total_positions
           /\ position = Position_new(start, total_positions)
           /\ simulated = [position |-> start, zeros |-> 0]
    /\ acc = <<0, 0>>
    /\ lines_read = 0
    /\ dial_panic = "none"
    /\ handled = NoCall

\* The fold of handle_input takes the next non-empty line: a line that does
\* not parse is dropped, a rotation goes through handle_rotation.
HandleLine ==
    /\ dial_panic = "none"
    /\ lines_read < MaxLines
    /\ lines_read' = lines_read + 1
    /\ \E line \in RotationLines :
           LET parsed == Rotation_from_str(line)
               r == handle_rotation(position, parsed.rot, overflow_checks)
           IN  IF ~parsed.ok
               THEN UNCHANGED <<position, acc, dial_panic, handled, simulated>>
               ELSE IF overflow_checks /\ parsed.panic # "none"
               THEN /\ dial_panic' = parsed.panic
                    /\ UNCHANGED <<position, acc, handled, simulated>>
               ELSE IF r.panic # "none"
               THEN /\ dial_panic' = r.panic
                    /\ handled' = [before |-> position.current, rot |-> parsed.rot,
                                   ret |-> r.ret, called |-> TRUE,
                                   wrapped |-> handled.wrapped
                                                 \/ ~InI32(position.current + parsed.rot)]
                    /\ UNCHANGED <<position, acc, simulated>>
               ELSE /\ position' = r.self
                    /\ acc' = <<acc[1] + r.ret[1], acc[2] + r.ret[2]>>
                    /\ handled' = [before |-> position.current, rot |-> parsed.rot,
                                   ret |-> r.ret, called |-> TRUE,
                                   wrapped |-> handled.wrapped
                                                 \/ ~InI32(position.current + parsed.rot)]
                    /\ simulated' = Clicks(simulated, parsed.rot,
                                           position.total_positions)
                    /\ UNCHANGED dial_panic
    /\ UNCHANGED <<day4Vars, day5Vars, day3Vars, overflow_checks>>

SpecDial == DialInit /\ [][HandleLine]_vars

\* ------------------------------------------------------ day3: the program

\* the lines of decimal digits
DigitLines == UNION { [1..n -> 0..MaxDigit] : n \in 0..MaxLineLen }

\* A call max_battery_of_length(len, &line) is about to be made.
BatteryInit ==
    /\ Day4Idle
    /\ Day5Idle
    /\ Day1Idle
    /\ battery_len \in 0..MaxLineLen + 1
    /\ battery_line \in DigitLines
    /\ battery = NoResult

MaxBattery ==
    /\ battery = NoResult
    /\ battery' = max_battery_of_length(battery_len, battery_line)
    /\ UNCHANGED <<day4Vars, day5Vars, day1Vars, battery_len, battery_line>>

SpecBattery == BatteryInit /\ [][MaxBattery]_vars

\* ------------------------------------------------ what the claims speak of

\* The data rows of an input: its non-empty lines.
DataRows(lines) == SelectSeq(lines, LAMBDA line : line # <<>>)

\* An input that is a grid of equal-width rows and nothing else.
IsGrid(lines) ==
    /\ Len(lines) >= 1
    /\ \A x \in 1..Len(lines) : Len(lines[x]) >= 1 /\ Len(lines[x]) = Len(lines[1])

\* The in-bounds 8-adjacent positions of (r, c) in a height x width grid.
Adjacent(height, width, r, c) ==
    { a \in (0..height - 1) \X (0..width - 1) :
        /\ a # <<r, c>>
        /\ a[1] - r \in {-1, 0, 1}
        /\ a[2] - c \in {-1, 0, 1} }

\* Occupied cells among the neighbours of (r, c) in a grid of characters.
GridNeighbours(lines, r, c) ==
    Cardinality({ a \in Adjacent(Len(lines), Len(lines[1]), r, c) :
                    lines[a[1] + 1][a[2] + 1] = ROLL })

GridMovable(lines) ==
    { a \in (0..Len(lines) - 1) \X (0..Len(lines[1]) - 1) :
        lines[a[1] + 1][a[2] + 1] = ROLL /\ GridNeighbours(lines, a[1], a[2]) < 4 }

At(self, a) == self.rows[a[1] + 1][a[2] + 1]

RoomNeighbours(self, a) ==
    Cardinality({ b \in Adjacent(self.height, self.width, a[1], a[2]) : At(self, b).is_roll })

\* The removable cells: occupied, with a count below 4.
RoomMovable(self) == { a \in Cells(self) : At(self, a).is_roll /\ At(self, a).neighbors < 4 }

Rolls(self) == { a \in Cells(self) : At(self, a).is_roll }

\* count_initially_movable has returned.
StreamDone == pc \in {"from", "prepare", "loop", "sweep", "done"}

\* Room::from has returned and no panic has ended the run: the room is between
\* sweeps ("loop"), inside one ("sweep", after each removal) or at the fixpoint.
RoomLive == pc \in {"loop", "sweep", "done"}

\* ----------------------------------------------------------------- claims

\* C1: on a grid of equal-width rows the streaming pass returns the number of
\* occupied cells with fewer than 4 occupied in-bounds neighbours, which is the
\* number of is_movable entries of the room Room::from builds, before any sweep.
C1_StreamingEqualsGrid ==
    IsGrid(input) =>
        /\ panic = "none"
        /\ pc = "from" => initially_movable = Cardinality(GridMovable(input))
        /\ (pc = "loop" /\ sweeps = 0) =>
               initially_movable = Cardinality(RoomMovable(room))

C1_Witness ==
    /\ IsGrid(input)
    /\ pc = "loop"
    /\ sweeps = 0
    /\ room.height >= 3
    /\ room.width >= 3
    /\ initially_movable >= 2
    /\ initially_movable < Cardinality(Rolls(room))

\* The run has ended: main returned or a panic ended the process.
Terminated == pc \in {"done", "panicked"}

\* C2 as stated: the loop issues at most height * width calls of sweep.
C2_Original == RoomLive => sweeps <= room.height * room.width

\* Grows with every step of the loop of count_eventually_movable: the calls of
\* sweep, then how far the running call has come.
LoopMeasure ==
    sweeps * (room.height * room.width + 2)
        + (IF pc = "sweep" THEN k ELSE room.height * room.width + 1)

\* C2, amended: the loop ends, after at most height * width calls of sweep that
\* removed something and one more, the call that returns 0.  Every step of the
\* loop (SweepCall and SweepStep have no guard but pc) ends the run or raises
\* LoopMeasure, which is bounded.
C2_TerminatesWithinBound ==
    /\ [](RoomLive => /\ sweeps <= room.height * room.width + 1
                      /\ pc = "loop" => sweeps <= room.height * room.width
                      /\ k <= room.height * room.width)
    /\ [][(pc \in {"loop", "sweep"}) => (Terminated' \/ LoopMeasure' > LoopMeasure)]_vars

C2_Witness == pc = "done" /\ sweeps = room.height * room.width + 1

\* C3: an input without data rows fails nowhere and both results are 0.
C3_NoDataRows ==
    DataRows(input) = <<>> =>
        /\ panic = "none"
        /\ StreamDone => initially_movable = 0
        /\ pc = "done" => eventually_movable = 0

Ragged(lines) ==
    \E x, y \in 1..Len(DataRows(lines)) : Len(DataRows(lines)[x]) # Len(DataRows(lines)[y])

\* C4: rows of unequal length fail neither computation, and the width is the
\* length of the first non-empty row.
C4_UnequalRows ==
    Ragged(input) =>
        /\ panic = "none"
        /\ pc \in {"prepare", "loop", "sweep", "done"} =>
               room.width = Len(DataRows(input)[1])

\* C5: once Room::from has returned, between sweeps and after each removal of a
\* sweep, every cell's neighbors field is the number of occupied cells among its
\* in-bounds 8-adjacent positions.
C5_NeighborsExact ==
    RoomLive => \A a \in Cells(room) : At(room, a).neighbors = RoomNeighbours(room, a)

C5_Witness ==
    /\ pc = "sweep"
    /\ count >= 2
    /\ \E a \in Rolls(room) : At(room, a).neighbors >= 4

\* C6: a sweep called on a room without removable cell returns 0 and changes
\* nothing, in the program's last call of sweep and in a further call.
C6_SweepAtFixpoint ==
    /\ []((RoomLive /\ RoomMovable(room) = {}) =>
            LET f == sweep(room)
            IN  /\ f.status = "returned"
                /\ f.count = 0
                /\ f.self = room
                /\ sweep(f.self).count = 0
                /\ sweep(f.self).self = room)
    /\ [][(pc = "sweep" /\ k = 0 /\ RoomMovable(room) = {}) =>
            (room' = room /\ count' = 0 /\ pc' = "done")]_vars

C6_Witness == pc = "done" /\ total_moved > 0 /\ Rolls(room) # {}

\* C7: removing movable rolls one at a time in any order until none is movable
\* removes as many rolls as count_eventually_movable's sweeps.
C7_OrderIndependent ==
    (pc = "any_order" /\ RoomMovable(room) = {}) =>
        count_eventually_movable(input) = [ret |-> removed, panic |-> "none"]

C7_Witness ==
    /\ pc = "any_order"
    /\ RoomMovable(room) = {}
    /\ removed >= 3
    /\ Rolls(room) # {}

Corner(self, a) == a[1] \in {0, self.height - 1} /\ a[2] \in {0, self.width - 1}
Interior(self, a) == a[1] \notin {0, self.height - 1} /\ a[2] \notin {0, self.width - 1}
Edge(self, a) == ~Corner(self, a) /\ ~Interior(self, a)

Range(seq) == { seq[x] : x \in 1..Len(seq) }

NeighborsByPosition ==
    /\ Corner(room, called) => Len(neighbors) = 3
    /\ Edge(room, called) => Len(neighbors) = 5
    /\ Interior(room, called) => Len(neighbors) = 8

\* C8 as stated: in every grid with height >= 1 and width >= 1 find_neighbors
\* yields 3, 5 or 8 in-bounds coordinates by the cell's position.
C8_Original ==
    called # <<>> => NeighborsByPosition /\ Range(neighbors) \subseteq Cells(room)

\* C8, amended: the counts hold in a grid with at least two rows and two
\* columns; in every grid the coordinates are in bounds.
C8_FindNeighbors ==
    called # <<>> =>
        /\ (room.height >= 2 /\ room.width >= 2) => NeighborsByPosition
        /\ Range(neighbors) \subseteq Cells(room)

C8_Witness ==
    /\ called # <<>>
    /\ Interior(room, called)
    /\ Len(neighbors) = 8
    /\ pc = "sweep"

PositionalMax(self, a) ==
    IF Corner(self, a) THEN 3 ELSE IF Edge(self, a) THEN 5 ELSE 8

\* C9: no decrement is applied to a count of 0, and in prepare, between sweeps
\* and inside them every count is between 0 and the maximum of its position.
C9_CountsInRange ==
    /\ panic # "subtract_with_overflow"
    /\ pc \in {"prepare", "loop", "sweep", "done"} =>
           \A a \in Cells(room) :
               InVec(room.rows, a[1], a[2]) =>
                   /\ At(room, a).neighbors >= 0
                   /\ At(room, a).neighbors <= PositionalMax(room, a)

C9_Witness ==
    /\ pc = "sweep"
    /\ count >= 1
    /\ \E b \in Range(neighbors) : At(room, b).neighbors = 0
    /\ \E a \in Cells(room) : At(room, a).neighbors = PositionalMax(room, a)

\* The data rows up to the first blank line that follows them.
RECURSIVE UpToBlank(_)
UpToBlank(lines) ==
    IF lines = <<>> THEN <<>>
    ELSE IF Head(lines) = <<>> THEN UpToBlank(Tail(lines))
    ELSE LET upto == CHOOSE n \in 1..Len(lines) :
                        /\ \A x \in 1..n : lines[x] # <<>>
                        /\ n = Len(lines) \/ lines[n + 1] = <<>>
         IN  SubSeq(lines, 1, upto)

\* C10 as stated: the results are those of the rows before the first blank line
\* that follows data rows.
C10_Original ==
    /\ pc = "from" => initially_movable = count_initially_movable(UpToBlank(input)).ret
    /\ pc = "done" => eventually_movable = count_eventually_movable(UpToBlank(input)).ret

\* C10, amended: blank lines are ignored wherever they are; the results are
\* those of all the non-empty lines, in order.
C10_BlankLinesIgnored ==
    /\ pc = "from" =>
           count_initially_movable(DataRows(input)) =
               [ret |-> initially_movable, panic |-> "none"]
    /\ pc = "done" =>
           count_eventually_movable(DataRows(input)) =
               [ret |-> eventually_movable, panic |-> "none"]

C10_Witness ==
    /\ pc = "done"
    /\ \E x \in 2..Len(input) - 1 :
           input[x] = <<>> /\ input[x - 1] # <<>> /\ input[x + 1] # <<>>
    /\ eventually_movable > count_eventually_movable(UpToBlank(input)).ret
    /\ initially_movable > count_initially_movable(UpToBlank(input)).ret

\* ----------------------------------------------------- the order of a sweep

\* the place of a cell in the row-major scan
ScanIndex(self, a) == a[1] * self.width + a[2]

\* The occupied cells when the scan of the running sweep reached a: the cells
\* before a as they are now, a and the cells after it as they were at the call.
OccupiedWhenReached(a) ==
    { b \in Cells(room) :
        IF ScanIndex(room, b) < ScanIndex(room, a)
        THEN At(room, b).is_roll ELSE At(at_call, b).is_roll }

\* C17: within one sweep a cell is tested when the row-major scan reaches it,
\* against the occupancy left by the earlier removals of that sweep: a cell
\* the scan has passed was removed exactly if it was occupied and had
\* fewer than 4 occupied neighbours when the scan reached it, whether or not
\* it was removable at the start of the sweep; a passed cell is not touched
\* again in that sweep, and a cell the scan has not reached is as it was at
\* the call.
C17_TestedWhenReached ==
    sweeps >= 1 /\ pc \in {"sweep", "loop", "done"} =>
        \A a \in Cells(room) :
            IF ScanIndex(room, a) < k
            THEN At(room, a).is_roll <=>
                     /\ At(at_call, a).is_roll
                     /\ Cardinality(OccupiedWhenReached(a)
                             \cap Adjacent(room.height, room.width, a[1], a[2])) >= 4
            ELSE At(room, a).is_roll = At(at_call, a).is_roll

\* A roll that was not removable at the call has just been removed, and a
\* roll the scan has passed has become removable and is still there.
C17_Witness ==
    /\ pc = "sweep"
    /\ called \in Rolls(at_call) \ RoomMovable(at_call)
    /\ ~At(room, called).is_roll
    /\ \E b \in RoomMovable(room) : ScanIndex(room, b) < k

\* ------------------------------------------------------- what a sweep counts

\* the cells of the room that are occupied in the input
InitialRolls ==
    { a \in Cells(room) : DataRows(input)[a[1] + 1][a[2] + 1] = ROLL }

\* C20: a sweep returns the number of cells it changed from occupied to empty
\* and makes no empty cell occupied, so a sweep that returns k lowers the
\* number of occupied cells by exactly k; the total count_eventually_movable
\* returns is the number of cells occupied in the initial grid minus the
\* number occupied when the loop ends.
C20_CountIsRemoved ==
    pc \in {"sweep", "loop", "done"} =>
        /\ Rolls(room) \subseteq InitialRolls
        /\ sweeps >= 1 =>
               /\ Rolls(room) \subseteq Rolls(at_call)
               /\ count = Cardinality(Rolls(at_call)) - Cardinality(Rolls(room))
        /\ total_moved + (IF pc = "sweep" THEN count ELSE 0)
               = Cardinality(InitialRolls) - Cardinality(Rolls(room))
        /\ pc = "done" =>
               eventually_movable = Cardinality(InitialRolls) - Cardinality(Rolls(room))

\* The loop has ended: a sweep removed several rolls, the next none, and
\* rolls are left.
C20_Witness ==
    /\ pc = "done"
    /\ sweeps = 2
    /\ eventually_movable >= 2
    /\ Rolls(room) # {}

\* ------------------------------------------------- the three row buffers

\* the data rows handle_row has been given so far
RowsHandled == DataRows(SubSeq(input, 1, pos))

\* the number of occupied columns of row among x + d, d in D (x 1-based)
Near(row, x, D) ==
    Cardinality({ y \in 1..Len(row) : row[y] = ROLL /\ y - x \in D })

\* a handle_row call for a data row of a grid has returned
AfterDataRow ==
    /\ pc = "stream"
    /\ panic = "none"
    /\ IsGrid(RowsHandled)

\* What the increments of the previous buffer and of the next buffer leave:
\* the row above the last is tallied with its final counts, and the buffer for
\* the row below the last holds the last row's rolls at x - 1, x and x + 1.
AboveAndBelow ==
    LET rows == RowsHandled
        n == Len(rows)
    IN  /\ all_but_last = Cardinality({ a \in GridMovable(rows) : a[1] < n - 1 })
        /\ \A x \in 1..rememberer.width :
               rememberer.curr_row[x] =
                   [is_roll |-> FALSE, neighbors |-> Near(rows[n], x, {-1, 0, 1})]

\* C18 as stated: each occupied column i of a row increments the columns
\* i - 1, i and i + 1 in the previous, the current and the next buffer.
C18_Original ==
    AfterDataRow =>
        LET rows == RowsHandled
            n == Len(rows)
        IN  /\ AboveAndBelow
            /\ \A x \in 1..rememberer.width :
                   rememberer.prev_row[x].neighbors =
                       (IF n >= 2 THEN Near(rows[n - 1], x, {-1, 0, 1}) ELSE 0)
                           + Near(rows[n], x, {-1, 0, 1})

\* C18: each occupied column i of a row increments the columns i - 1, i and
\* i + 1 in the previous and in the next buffer, and the columns i - 1 and
\* i + 1 in the current buffer, where column i is marked occupied and not
\* incremented.
C18_ThreeBuffers ==
    AfterDataRow =>
        LET rows == RowsHandled
            n == Len(rows)
        IN  /\ AboveAndBelow
            /\ \A x \in 1..rememberer.width :
                   rememberer.prev_row[x] =
                       [is_roll |-> rows[n][x] = ROLL,
                        neighbors |->
                            (IF n >= 2 THEN Near(rows[n - 1], x, {-1, 0, 1}) ELSE 0)
                                + Near(rows[n], x, {-1, 1})]

\* Three rows of three rolls have been handled: the middle column of the last
\* row has 3 from the row above and 2 from its own row.
C18_Witness ==
    /\ AfterDataRow
    /\ Len(RowsHandled) = 3
    /\ rememberer.width = 3
    /\ rememberer.prev_row[2] = [is_roll |-> TRUE, neighbors |-> 5]
    /\ rememberer.curr_row[1].neighbors = 2
    /\ all_but_last = 2

\* --------------------------------------------------- the tally of each row

\* The number of removable cells of the r-th row of a grid (r = 1 is the top
\* row), by the grid's own neighbour counts; 0 for r = 0, the all-empty row the
\* previous buffer holds while the top row is read.
MovableInRow(lines, r) ==
    Cardinality({ a \in GridMovable(lines) : a[1] = r - 1 })

\* C19: in the streaming pass every data row is tallied exactly once, with its
\* final counts: the call of handle_row for row r + 1 tallies row r after the
\* contributions of the rows r - 1, r and r + 1, before it rotates the buffers;
\* the one tally_prev_row after the stream tallies the last row; no row is
\* tallied twice or skipped. (No tally is made after count_initially_movable
\* has returned, at pc "from".)
C19_EachRowOnce ==
    pc \in {"stream", "from"} /\ panic = "none" /\ IsGrid(DataRows(input)) =>
        /\ pc = "stream" => Len(tallies) = Len(RowsHandled)
        /\ pc = "from" => Len(tallies) = Len(DataRows(input)) + 1
        /\ \A m \in 1..Len(tallies) :
               tallies[m] = MovableInRow(DataRows(input), m - 1)

\* Three full rows of three: the corners of the top and of the bottom row are
\* removable, no cell of the middle row is.
C19_Witness ==
    /\ pc = "from"
    /\ IsGrid(DataRows(input))
    /\ tallies = <<0, 2, 0, 2>>

\* ------------------------------------------------------------ day5 claims

\* every range added so far has start <= end
WellFormed == \A r \in added : r.start <= r.end

\* C11: after any sequence of add_range calls from the empty Ranges, every
\* added range having start <= end, the stored vector is sorted and its ranges
\* do not overlap: consecutive stored ranges a, b have a.end < b.start.
C11_SortedDisjoint ==
    WellFormed =>
        \A x \in 1..Len(stored) - 1 : stored[x].end < stored[x + 1].start

\* Four adds, one merged into a stored range, three ranges left.
C11_Witness ==
    /\ WellFormed
    /\ Cardinality(added) = 4
    /\ Len(stored) = 3

\* the integers of at least one added range
Covered == { n \in 0..UsizeMax : \E r \in added : r.start <= n /\ n <= r.end }

\* C12: after any sequence of add_range calls (each range with start <= end),
\* contains(n) is true exactly of the integers of the union of the added ranges
\* and total() returns the number of distinct integers of that union.
C12_CoverageExact ==
    WellFormed =>
        /\ \A n \in 0..UsizeMax : contains(stored, n) <=> n \in Covered
        /\ Ranges_total(stored) = [ret |-> Cardinality(Covered), panic |-> "none"]

\* What holds of total(): it is the size of the union unless that is all of
\* usize, where the sum leaves usize.
C12_TotalUnlessFull ==
    WellFormed =>
        /\ \A n \in 0..UsizeMax : contains(stored, n) <=> n \in Covered
        /\ Covered # 0..UsizeMax =>
               Ranges_total(stored) = [ret |-> Cardinality(Covered), panic |-> "none"]
        /\ Covered = 0..UsizeMax =>
               Ranges_total(stored) = [ret |-> 0, panic |-> "add_with_overflow"]

\* a set of ranges as lines, in increasing order of (start, end)
RECURSIVE SortedLines(_)
SortedLines(S) ==
    IF S = {} THEN <<>>
    ELSE LET least == CHOOSE r \in S : \A q \in S :
                          r.start < q.start \/ (r.start = q.start /\ r.end <= q.end)
         IN  <<<<least.start, least.end>>>> \o SortedLines(S \ {least})

\* C13 as stated: the Ranges built depends only on the set of input ranges,
\* whatever their order and duplicates.
C13_Original == stored = Ranges_from(SortedLines(added))

\* C13: when every input range has start <= end, the Ranges built depends
\* only on the set of input ranges: every order of adding them, with or
\* without duplicates, builds the vector that adding them once in increasing
\* order builds.
C13_OrderIndependent == WellFormed => stored = Ranges_from(SortedLines(added))

\* Three ranges were added, one of them twice, and two were merged.
C13_Witness ==
    /\ WellFormed
    /\ Cardinality(added) = 3
    /\ adds = 4
    /\ Len(stored) = 2

\* ------------------------------------------------------------ day1 claims

\* C14: for a dial of N positions starting at p in [0, N) and any sequence of
\* signed rotations, every rotation is handled, the accumulated second count
\* is the number of clicks of the click-by-click simulation after which the
\* dial reads 0, and the position after a rotation r from p is (p + r) mod N.
C14_ClicksAtZero ==
    /\ dial_panic = "none"
    /\ acc[2] = simulated.zeros
    /\ position.current = simulated.position
    /\ handled.called =>
           position.current = (handled.before + handled.rot) % position.total_positions

\* What holds: the counts and positions are those of the simulation as long
\* as no sum current + rot has left i32 and no call has panicked.
C14_UnlessOverflow ==
    ~handled.wrapped /\ dial_panic = "none" =>
        /\ position.current = simulated.position
        /\ acc[2] = simulated.zeros
        /\ handled.called =>
               position.current = (handled.before + handled.rot) % position.total_positions

\* C15: for every rotation handled by handle_rotation the first count is 1
\* exactly when the final position is 0 and otherwise 0, the second count is at
\* least 1 whenever the first is 1, and so the accumulated first count never
\* exceeds the accumulated second count.
C15_ExactWithinPassthroughs ==
    /\ handled.called /\ dial_panic = "none" =>
           /\ handled.ret[1] = (IF position.current = 0 THEN 1 ELSE 0)
           /\ handled.ret[1] = 1 => handled.ret[2] >= 1
    /\ acc[1] <= acc[2]

\* What holds: the second count includes the ending at 0 of every rotation but
\* the rotation by 0 of a dial that reads 0.
C15_UnlessZeroRotation ==
    handled.called /\ dial_panic = "none" =>
        /\ handled.ret[1] = (IF position.current = 0 THEN 1 ELSE 0)
        /\ handled.ret[1] = 1 /\ (handled.rot # 0 \/ handled.before # 0) =>
               handled.ret[2] >= 1

\* ------------------------------------------------------------ day3 claims

\* the digits of line at the places S, in their order
RECURSIVE Kept(_, _)
Kept(line, S) ==
    IF S = {} THEN <<>>
    ELSE LET last == CHOOSE x \in S : \A y \in S : y <= x
         IN  Append(Kept(line, S \ {last}), line[last])

\* the numbers obtainable by keeping len digits of line in their order
Obtainable(len, line) ==
    { decimal(Kept(line, S)) : S \in { T \in SUBSET (1..Len(line)) : Cardinality(T) = len } }

Largest(S) == CHOOSE x \in S : \A y \in S : y <= x

\* C16 as stated: for 1 <= len <= line length the result is the largest
\* number obtainable by keeping len digits of the line in their order; for a
\* line shorter than len it is the TooShort error.
C16_Original ==
    battery # NoResult =>
        /\ 1 <= battery_len /\ battery_len <= Len(battery_line) =>
               battery = Ok(Largest(Obtainable(battery_len, battery_line)))
        /\ Len(battery_line) < battery_len => battery = Err("TooShort")

\* C16: the same when that largest number is at most usize::MAX; when it is
\* greater the result is the ParseInt error.
C16_LargestThatFits ==
    battery # NoResult =>
        /\ 1 <= battery_len /\ battery_len <= Len(battery_line) =>
               LET largest == Largest(Obtainable(battery_len, battery_line))
               IN  battery = IF largest <= ParseMax THEN Ok(largest) ELSE Err("ParseInt")
        /\ Len(battery_line) < battery_len => battery = Err("TooShort")

\* Three of five digits are kept, not the first three, and the number fits.
C16_Witness ==
    /\ battery_len = 3
    /\ Len(battery_line) = 5
    /\ battery.err = "none"
    /\ battery.val # decimal(SubSeq(battery_line, 1, 3))
    /\ battery.val > 100

\* ------------------------------------------------------------ the fixpoint

\* every cell of T has at least 4 of its 8 neighbours in T
Stable(T) ==
    \A a \in T :
        Cardinality(Adjacent(room.height, room.width, a[1], a[2]) \cap T) >= 4

\* C21: when the loop of count_eventually_movable ends, no occupied cell has
\* fewer than 4 occupied neighbours, the occupied cells are the largest subset
\* of the initially occupied cells in which every cell has at least 4 of its
\* 8 neighbours (every such subset lies within it), and the total returned is
\* the initial number of occupied cells minus the number still occupied.
C21_LargestStableSubset ==
    pc = "done" =>
        /\ \A a \in Rolls(room) : RoomNeighbours(room, a) >= 4
        /\ Rolls(room) \subseteq InitialRolls
        /\ Stable(Rolls(room))
        /\ \A T \in SUBSET InitialRolls : Stable(T) => T \subseteq Rolls(room)
        /\ eventually_movable = Cardinality(InitialRolls) - Cardinality(Rolls(room))

\* The loop has ended with rolls left, fewer than there were: some of the rolls
\* of the input have been removed, and a stable set that is not empty remains.
C21_Witness ==
    /\ pc = "done"
    /\ Rolls(room) # {}
    /\ Rolls(room) # InitialRolls
    /\ Stable(Rolls(room))
    /\ eventually_movable = Cardinality(InitialRolls \ Rolls(room))

====
